---- MODULE Spec2Model ----
(***************************************************************************)
(* Model of process_pdfs (src/app.py), the extraction and scoring pipeline *)
(* of the greenwashing audit.                                              *)
(*                                                                         *)
(* A page's text is a sequence of tokens.  A token is a word (a label      *)
(* phrase, a policy name, "Yes", a filler word), a line break, or a number *)
(* written as the characters the pattern [\d,]+\.?\d* captures.  Tokens    *)
(* are separated by a blank inside a line.  Python floats are modelled as  *)
(* exact rationals n/d extended with inf, -inf and nan.                    *)
(***************************************************************************)
EXTENDS Integers, Sequences, FiniteSets, TLC

\* ------------------------------------------------------------------ bounds
MaxListing == 2     \* entries in the directory listing
MaxPages == 11      \* pages in one document
MaxTextPages == 2   \* pages of one document that carry text (others are blank)

\* ------------------------------------------------------- program constants
PageLimit == 10         \* pdf.pages[:10]
CsrDivisor == 500       \* csr_spend / 500
CsrCap == 50            \* * 50, capped at 50
EnergyGuard == 10       \* total_energy > 10
FloatMaxDigits == 308   \* float() of a longer run of nines is inf

\* ------------------------------------------------------------------ floats
RECURSIVE GCD(_, _)
GCD(a, b) == IF b = 0 THEN a ELSE GCD(b, a % b)

Abs(n) == IF n < 0 THEN -n ELSE n

\* the finite float n/d, in lowest terms
F(n, d) ==
    LET g == GCD(Abs(n), d)
    IN  [c |-> "fin", n |-> n \div g, d |-> d \div g]

INF == [c |-> "inf", n |-> 0, d |-> 1]
NINF == [c |-> "ninf", n |-> 0, d |-> 1]
NAN == [c |-> "nan", n |-> 0, d |-> 1]

IsFin(x) == x.c = "fin"

\* a < b ; any comparison with nan is false
FLt(a, b) ==
    CASE a.c = "nan" \/ b.c = "nan" -> FALSE
      [] a.c = "fin" /\ b.c = "fin" -> a.n * b.d < b.n * a.d
      [] a.c = "ninf" -> b.c # "ninf"
      [] a.c = "inf" -> FALSE
      [] OTHER -> b.c = "inf"

FGt(a, b) == FLt(b, a)

\* a / b for b > 0 or b = inf (every divisor of the program is one of these)
FDiv(a, b) ==
    CASE a.c = "nan" \/ b.c = "nan" -> NAN
      [] a.c = "fin" /\ b.c = "fin" -> F(a.n * b.d, a.d * b.n)
      [] a.c = "fin" -> F(0, 1)
      [] b.c = "fin" -> a
      [] OTHER -> NAN

\* a * b for finite b > 0
FMul(a, b) ==
    CASE a.c = "fin" -> F(a.n * b.n, a.d * b.d)
      [] OTHER -> a

FAdd(a, b) ==
    CASE a.c = "nan" \/ b.c = "nan" -> NAN
      [] a.c = "fin" /\ b.c = "fin" -> F(a.n * b.d + b.n * a.d, a.d * b.d)
      [] a.c = "fin" -> b
      [] b.c = "fin" -> a
      [] a.c = b.c -> a
      [] OTHER -> NAN

FNeg(a) ==
    CASE a.c = "fin" -> F(-a.n, a.d)
      [] a.c = "inf" -> NINF
      [] a.c = "ninf" -> INF
      [] OTHER -> NAN

FSub(a, b) == FAdd(a, FNeg(b))

\* Python's min(a, b): a unless b < a
PyMin(a, b) == IF FLt(b, a) THEN b ELSE a

\* round(x, 1) for x >= 0: to the nearest tenth.  On an exact decimal tie
\* Python decides by the binary representation of x; no score of the page
\* texts below is a tie.
Round1(x) ==
    IF ~IsFin(x) THEN x
    ELSE LET m == 10 * x.n
             q == m \div x.d
             r == m % x.d
             t == IF 2 * r < x.d THEN q
                  ELSE IF 2 * r > x.d THEN q + 1
                  ELSE IF q % 2 = 0 THEN q ELSE q + 1
         IN  F(t, 10)

\* ------------------------------------------------------------------ tokens
W(x) == [k |-> "word", s |-> <<x>>, rep |-> 1]
N(chars) == [k |-> "num", s |-> chars, rep |-> 1]
NL == [k |-> "nl", s |-> <<>>, rep |-> 1]
\* a run of 400 nines
Huge == [k |-> "num", s |-> <<"9">>, rep |-> 400]

DigitVal(c) ==
    CASE c = "0" -> 0 [] c = "1" -> 1 [] c = "2" -> 2 [] c = "3" -> 3
      [] c = "4" -> 4 [] c = "5" -> 5 [] c = "6" -> 6 [] c = "7" -> 7
      [] c = "8" -> 8 [] c = "9" -> 9

\* re.IGNORECASE: words compare by their case-folded form
CaseFold(w) ==
    CASE w \in {"Community Spending", "community spending"} -> "community spending"
      [] w \in {"CSR Expenditure", "csr expenditure"} -> "csr expenditure"
      [] w = "Renewable Energy Use" -> "renewable energy use"
      [] w = "Renewable Energy" -> "renewable energy"
      [] w = "Total Energy Consumption" -> "total energy consumption"
      [] w = "Energy Consumption" -> "energy consumption"
      [] w = "GHG Scope 1" -> "ghg scope 1"
      [] w = "Scope 1 Emissions" -> "scope 1 emissions"
      [] w \in {"Climate Change Policy", "CLIMATE CHANGE POLICY"} -> "climate change policy"
      [] w = "Biodiversity Policy" -> "biodiversity policy"
      [] w = "Water Policy" -> "water policy"
      [] w = "Human Rights Policy" -> "human rights policy"
      [] w = "Whistle Blower Policy" -> "whistle blower policy"
      [] w \in {"Yes", "yes", "YES"} -> "yes"
      [] OTHER -> w

IsWord(tok, phrases) == tok.k = "word" /\ CaseFold(tok.s[1]) \in phrases

\* the label phrases of the four patterns, primary and fallback
CsrLabels == {"community spending", "csr expenditure"}
RenLabels == {"renewable energy use", "renewable energy"}
EnLabels == {"total energy consumption", "energy consumption"}
GhgLabels == {"ghg scope 1", "scope 1 emissions"}

\* a token in which ([\d,]+\.?\d*) finds a digit or a comma
HasNum(tok) == tok.k = "num" \/ IsWord(tok, GhgLabels)

\* group(2) when the number is found in tok: the number itself, or the
\* digit 1 of a "Scope 1" phrase
NumGroup(tok) == IF tok.k = "num" THEN tok ELSE N(<<"1">>)

\* ------------------------------------------- float(group.replace(',', ''))
RECURSIVE SeqToNat(_)
SeqToNat(ds) ==
    IF ds = <<>> THEN 0
    ELSE 10 * SeqToNat(SubSeq(ds, 1, Len(ds) - 1)) + DigitVal(ds[Len(ds)])

RECURSIVE Pow10(_)
Pow10(k) == IF k = 0 THEN 1 ELSE 10 * Pow10(k - 1)

StripCommas(chars) == SelectSeq(chars, LAMBDA c : c # ",")

\* [ok |-> FALSE] stands for ValueError
ParseFloat(g) ==
    LET str == StripCommas(g.s)
        dots == {i \in 1..Len(str) : str[i] = "."}
        dot == IF dots = {} THEN Len(str) + 1 ELSE CHOOSE i \in dots : TRUE
        ip == SubSeq(str, 1, dot - 1)
        fp == SubSeq(str, dot + 1, Len(str))
    IN  IF Len(ip) + Len(fp) = 0 THEN [ok |-> FALSE, v |-> NAN]
        ELSE IF Len(ip) * g.rep > FloatMaxDigits THEN [ok |-> TRUE, v |-> INF]
        ELSE [ok |-> TRUE,
              v |-> F(SeqToNat(ip) * Pow10(Len(fp)) + SeqToNat(fp), Pow10(Len(fp)))]

\* ---------------------------------------------------------------- re.search
\* LABEL.*?NUMBER without re.DOTALL: from the label at i, the lazy .*? runs
\* to the first digit or comma and cannot pass a line break.  0: no match.
RECURSIVE NumAfter(_, _)
NumAfter(txt, j) ==
    IF j > Len(txt) THEN 0
    ELSE IF txt[j].k = "nl" THEN 0
    ELSE IF HasNum(txt[j]) THEN j
    ELSE NumAfter(txt, j + 1)

\* leftmost match: [i |-> 0] when there is none
RECURSIVE SearchFrom(_, _, _)
SearchFrom(txt, labels, i) ==
    IF i > Len(txt) THEN [i |-> 0, j |-> 0]
    ELSE IF IsWord(txt[i], labels) /\ NumAfter(txt, i + 1) # 0
         THEN [i |-> i, j |-> NumAfter(txt, i + 1)]
    ELSE SearchFrom(txt, labels, i + 1)

\* the same search with re.DOTALL: .*? passes line breaks
FieldSearchDotAll(txt, labels) ==
    LET starts == {i \in 1..Len(txt) : IsWord(txt[i], labels)
                                        /\ \E j \in i + 1..Len(txt) : HasNum(txt[j])}
        i0 == CHOOSE i \in starts : \A k \in starts : i <= k
    IN  IF starts = {} THEN [i |-> 0, j |-> 0]
        ELSE [i |-> i0,
              j |-> CHOOSE j \in i0 + 1..Len(txt) :
                        HasNum(txt[j]) /\ \A k \in i0 + 1..j - 1 : ~HasNum(txt[k])]

FieldSearch(txt, labels) == SearchFrom(txt, labels, 1)

\* POLICY.*?Yes with re.DOTALL: the leftmost policy name, then any gap
RECURSIVE FirstWord(_, _, _)
FirstWord(txt, phrases, i) ==
    IF i > Len(txt) THEN 0
    ELSE IF IsWord(txt[i], phrases) THEN i
    ELSE FirstWord(txt, phrases, i + 1)

\* the same search without re.DOTALL: Yes on the line of the policy name
PolicySearchNoDotAll(txt, p) ==
    \E i \in 1..Len(txt) :
        /\ IsWord(txt[i], {p})
        /\ \E j \in i + 1..Len(txt) :
              /\ IsWord(txt[j], {"yes"})
              /\ \A k \in i + 1..j - 1 : txt[k].k # "nl"

PolicySearch(txt, p) ==
    LET i == FirstWord(txt, {p}, 1)
    IN  i # 0 /\ FirstWord(txt, {"yes"}, i + 1) # 0

\* ------------------------------------------------------------ per-page step
NotFound == <<W("Not Found")>>

Zero == F(0, 1)
One == F(1, 1)

\* lines 80-90: the locals of one file
InitLoc ==
    [full_text |-> <<>>, csr_spend |-> Zero, renewable_energy |-> Zero,
     total_energy |-> One, ghg_emissions |-> Zero, policy_count |-> 0,
     csr_snippet |-> NotFound, renew_snippet |-> NotFound]

\* match.group(0): from the label through the number
Group0(txt, m) == SubSeq(txt, m.i, m.j)

\* group(1) only: the label without the number
Group1Only(txt, m) == SubSeq(txt, m.i, m.i)

SnippetOf(txt, m) == Group0(txt, m)

\* one "if <field> == <default>: search, parse, store" block (lines 100-118).
\* st = [loc, hit, exc]; hit: the fields that this page has matched.
FieldStep(st, txt, labels, field, default) ==
    IF st.exc # "none" \/ st.loc[field] # default THEN st
    ELSE LET m == FieldSearch(txt, labels)
         IN  IF m.i = 0 THEN st
             ELSE LET p == ParseFloat(NumGroup(txt[m.j]))
                  IN  IF ~p.ok THEN [st EXCEPT !.exc = "ValueError"]
                      ELSE LET l1 == [st.loc EXCEPT ![field] = p.v]
                               l2 == CASE field = "csr_spend" ->
                                            [l1 EXCEPT !.csr_snippet = SnippetOf(txt, m)]
                                       [] field = "renewable_energy" ->
                                            [l1 EXCEPT !.renew_snippet = SnippetOf(txt, m)]
                                       [] OTHER -> l1
                           IN  [st EXCEPT !.loc = l2, !.hit = @ \cup {field}]

\* lines 97-118: the body of the page loop
PageStep(l, txt) ==
    LET s0 == [loc |-> [l EXCEPT !.full_text = @ \o txt], hit |-> {}, exc |-> "none"]
        s1 == FieldStep(s0, txt, CsrLabels, "csr_spend", Zero)
        s2 == FieldStep(s1, txt, RenLabels, "renewable_energy", Zero)
        s3 == FieldStep(s2, txt, EnLabels, "total_energy", One)
    IN  FieldStep(s3, txt, GhgLabels, "ghg_emissions", Zero)

\* ------------------------------------------------------------ policy count
policies ==
    <<"climate change policy", "biodiversity policy", "water policy",
      "human rights policy", "whistle blower policy">>

RECURSIVE CountFrom(_, _, _)
CountFrom(txt, k, count) ==
    IF k > Len(policies) THEN count
    ELSE CountFrom(txt, k + 1, IF PolicySearch(txt, policies[k]) THEN count + 1 ELSE count)

\* lines 121-124
PolicyCount(txt) == CountFrom(txt, 1, 0)

\* ----------------------------------------------------------------- scoring
\* the ratio without the guard on total_energy
RenewMixUnguarded(renewable_energy, total_energy) ==
    FMul(FDiv(renewable_energy, total_energy), F(100, 1))

\* line 130
RenewMix(renewable_energy, total_energy) ==
    IF FGt(total_energy, F(EnergyGuard, 1))
    THEN FMul(FDiv(renewable_energy, total_energy), F(100, 1))
    ELSE Zero

\* line 131
CsrScore(csr_spend) ==
    PyMin(FMul(FDiv(csr_spend, F(CsrDivisor, 1)), F(CsrCap, 1)), F(CsrCap, 1))

\* lines 127-136
Scores(policy_count, csr_spend, renewable_energy, total_energy) ==
    LET talk_score == FMul(F(policy_count, Len(policies)), F(100, 1))
        w0 == FAdd(RenewMix(renewable_energy, total_energy), CsrScore(csr_spend))
        walk_score == IF FGt(w0, F(100, 1)) THEN F(100, 1) ELSE w0
        r0 == FSub(talk_score, walk_score)
        risk_score == IF FLt(r0, Zero) THEN Zero ELSE r0
    IN  [talk |-> talk_score, walk |-> walk_score, risk |-> risk_score]

\* ------------------------------------------------------------------ record
\* a file name is <<stem, extension>>
\* no filter on the extension
AnyFile(f) == TRUE

\* line 44: f.endswith('.pdf')
EndsWithPdf(f) == f[2] = ".pdf"

\* line 77: name_map.get(filename, title-cased stem)
CompanyName(f) ==
    CASE f = <<"acc", ".pdf">> -> "ACC Limited"
      [] f = <<"foo_bar", ".pdf">> -> "Foo Bar"
      [] OTHER -> f[1]

\* lines 138-150
MakeRecord(f, l) ==
    LET sc == Scores(l.policy_count, l.csr_spend, l.renewable_energy, l.total_energy)
    IN  [Company |-> CompanyName(f),
         RiskScore |-> Round1(sc.risk),
         TalkScore |-> Round1(sc.talk),
         WalkScore |-> Round1(sc.walk),
         CsrSpend |-> l.csr_spend,
         RenewableEnergy |-> l.renewable_energy,
         TotalEnergy |-> l.total_energy,
         GhgScope1 |-> l.ghg_emissions,
         Policies |-> l.policy_count,
         CsrEvidence |-> l.csr_snippet,
         RenewableEvidence |-> l.renew_snippet]

\* ------------------------------------------------------------- input space
\* the entries a directory listing may hold
FileNames == {<<"acc", ".pdf">>, <<"foo_bar", ".pdf">>, <<"notes", ".txt">>}

RECURSIVE SeqsUpTo(_, _)
SeqsUpTo(S, n) ==
    IF n = 0 THEN {<<>>}
    ELSE LET shorter == SeqsUpTo(S, n - 1)
         IN  shorter \cup {Append(q, x) : q \in shorter, x \in S}

Listings == SeqsUpTo(FileNames, MaxListing)

\* page texts
ReportPage ==
    <<W("CSR Expenditure"), N(<<"5", "0", "0">>), NL,
      W("Renewable Energy"), N(<<"4", "0", "0">>), NL,
      W("Total Energy Consumption"), N(<<"1", ",", "0", "0", "0">>), NL,
      W("Climate Change Policy"), W("Biodiversity Policy"), W("Water Policy"),
      W("Human Rights Policy"), W("Whistle Blower Policy"), W("Yes")>>
CsrZeroPage == <<W("community spending"), W("nil"), N(<<"0">>)>>
CsrFractionPage == <<W("CSR Expenditure"), N(<<"2", "5", "0", ".", "4">>)>>
CsrCommaPage == <<W("CSR Expenditure"), N(<<",">>), W("see"), N(<<"5", "0", "0">>)>>
RenBrokenLinePage == <<W("Renewable Energy Use"), NL, N(<<"4", "0", "0">>)>>
RenOverTotalPage ==
    <<W("Renewable Energy"), N(<<"2", ",", "0", "0", "0">>), NL,
      W("Energy Consumption"), N(<<"1", ".", "0">>)>>
EnergyPage == <<W("Energy Consumption"), W("units"), N(<<"8", "0", "0">>)>>
HugePage == <<W("Renewable Energy"), Huge, NL, W("Energy Consumption"), Huge>>
PolicyOnlyPage == <<W("CLIMATE CHANGE POLICY"), NL, W("Water Policy"), W("No")>>
YesFirstPage == <<W("yes"), NL, W("Human Rights Policy")>>
RepeatPage == <<W("Water Policy"), W("Yes"), W("Water Policy"), W("YES")>>
GhgPage ==
    <<W("GHG Scope 1"), N(<<"1", "2", "0">>), NL,
      W("CSR Expenditure"), W("Scope 1 Emissions"), N(<<"7">>)>>

Corpus ==
    {ReportPage, CsrZeroPage, CsrFractionPage, CsrCommaPage, RenBrokenLinePage,
     RenOverTotalPage, EnergyPage, HugePage, PolicyOnlyPage, YesFirstPage,
     RepeatPage, GhgPage}

SmallCorpus == {ReportPage, CsrZeroPage, CsrCommaPage}

\* ------------------------------------------------------------------- state
VARIABLES
    pc,         \* position in process_pdfs
    dirExists,  \* os.path.exists(folder_path)
    listing,    \* os.listdir(folder_path)
    corpus,     \* the page texts the documents of the folder are made of
    lengths,    \* the page counts the documents of the folder may have
    files,      \* the filtered listing
    idx,        \* number of the file the for loop is at (0: before the first)
    data,       \* the records appended so far
    loc,        \* the locals of the current file
    text,       \* the text of the page read last
    docLen,     \* len(pdf.pages) of the opened document
    page,       \* pages of the current document read so far
    exc,        \* the exception being handled
    found,      \* fields of the current file that have had a match
    hits,       \* fields that the page read last has matched
    seen,       \* the non-blank page texts read from the current file
    snap,       \* the locals as they were after page PageLimit
    origin,     \* for each record of data, the number of its file
    failed,     \* numbers of the files whose pipeline raised
    malformed,  \* numbers of the files that had a match with an unparsable number
    opens       \* calls of pdfplumber.open so far

vars ==
    <<pc, dirExists, listing, corpus, lengths, files, idx, data, loc, text, docLen, page,
      exc, found, hits, seen, snap, origin, failed, malformed, opens>>

inputs == <<dirExists, listing, corpus, lengths>>
fileLocals == <<loc, text, docLen, page, found, hits, seen, snap>>
ghosts == <<origin, failed, malformed>>

InitCommon ==
    /\ pc = "start"
    /\ dirExists \in BOOLEAN
    /\ files = <<>>
    /\ idx = 0
    /\ data = <<>>
    /\ loc = InitLoc
    /\ text = <<>>
    /\ docLen = 0
    /\ page = 0
    /\ exc = "none"
    /\ found = {}
    /\ hits = {}
    /\ seen = <<>>
    /\ snap = InitLoc
    /\ origin = <<>>
    /\ failed = {}
    /\ malformed = {}
    /\ opens = 0

\* a folder of several short files
Init ==
    /\ InitCommon
    /\ listing \in Listings
    /\ corpus = SmallCorpus
    /\ lengths = 0..MaxTextPages

\* a folder of one document, short or at and over the page limit
InitDoc ==
    /\ InitCommon
    /\ listing = <<<<"acc", ".pdf">>>>
    /\ corpus = Corpus
    /\ lengths = (0..MaxTextPages) \cup (PageLimit..MaxPages)

\* ----------------------------------------------------------------- actions
\* lines 41-42
ReturnMissing ==
    /\ pc = "start"
    /\ ~dirExists
    /\ pc' = "done"
    /\ UNCHANGED <<inputs, files, idx, data, fileLocals, exc, ghosts, opens>>

\* line 44
ListFolder ==
    /\ pc = "start"
    /\ dirExists
    /\ files' = SelectSeq(listing, EndsWithPdf)
    /\ pc' = "loop"
    /\ UNCHANGED <<inputs, idx, data, fileLocals, exc, ghosts, opens>>

\* the locals initialised once, before the loop
StaleLocals == loc

\* lines 80-90 run anew for every file
FreshLocals == InitLoc

\* lines 46, 77-90: the next file, its locals initialised
NextFile ==
    /\ pc = "loop"
    /\ idx < Len(files)
    /\ idx' = idx + 1
    /\ loc' = FreshLocals
    /\ found' = {}
    /\ hits' = {}
    /\ seen' = <<>>
    /\ snap' = InitLoc
    /\ page' = 0
    /\ text' = <<>>
    /\ pc' = "open"
    /\ UNCHANGED <<inputs, files, data, docLen, exc, ghosts, opens>>

\* line 155
Return ==
    /\ pc = "loop"
    /\ idx = Len(files)
    /\ pc' = "done"
    /\ UNCHANGED <<inputs, files, idx, data, fileLocals, exc, ghosts, opens>>

\* line 93: the document opens
OpenOk ==
    /\ pc = "open"
    /\ \E n \in lengths : docLen' = n
    /\ opens' = opens + 1
    /\ pc' = "pages"
    /\ UNCHANGED <<inputs, files, idx, data, loc, text, page, found, hits, seen,
                   snap, exc, ghosts>>

\* line 93: the file is unreadable or corrupt
OpenFail ==
    /\ pc = "open"
    /\ opens' = opens + 1
    /\ exc' = "OpenError"
    /\ pc' = "except"
    /\ UNCHANGED <<inputs, files, idx, data, fileLocals, ghosts>>

\* pdf.pages without the slice
PagesAll(n) == n

\* line 95: the slice pdf.pages[:10]
PagesToScan(n) == IF n < PageLimit THEN n ELSE PageLimit

\* lines 95-118: one page
ReadPage ==
    /\ pc = "pages"
    /\ page < PagesToScan(docLen)
    /\ \E t \in (IF Len(seen) < MaxTextPages THEN corpus ELSE {}) \cup {<<>>} :
          LET st == PageStep(loc, t)
          IN  /\ text' = t
              /\ loc' = st.loc
              /\ hits' = st.hit
              /\ found' = found \cup st.hit
              /\ seen' = IF t = <<>> THEN seen ELSE Append(seen, t)
              /\ IF st.exc = "none"
                 THEN /\ page' = page + 1
                      /\ snap' = IF page + 1 = PageLimit THEN st.loc ELSE snap
                      /\ UNCHANGED <<pc, exc, malformed>>
                 ELSE /\ exc' = st.exc
                      /\ malformed' = malformed \cup {idx}
                      /\ pc' = "except"
                      /\ UNCHANGED <<page, snap>>
    /\ UNCHANGED <<inputs, files, idx, data, docLen, origin, failed, opens>>

\* line 96-97: extract_text raises, or returns None and += raises TypeError
ExtractFail ==
    /\ pc = "pages"
    /\ page < PagesToScan(docLen)
    /\ exc' = "ExtractError"
    /\ pc' = "except"
    /\ UNCHANGED <<inputs, files, idx, data, fileLocals, ghosts, opens>>

\* the page loop and the with block end
EndPages ==
    /\ pc = "pages"
    /\ page = PagesToScan(docLen)
    /\ pc' = "policy"
    /\ UNCHANGED <<inputs, files, idx, data, fileLocals, exc, ghosts, opens>>

\* lines 121-124
CountPolicies ==
    /\ pc = "policy"
    /\ loc' = [loc EXCEPT !.policy_count = PolicyCount(loc.full_text)]
    /\ pc' = "score"
    /\ UNCHANGED <<inputs, files, idx, data, text, docLen, page, found, hits, seen,
                   snap, exc, ghosts, opens>>

\* lines 127-150
ScoreAndAppend ==
    /\ pc = "score"
    /\ data' = Append(data, MakeRecord(files[idx], loc))
    /\ origin' = Append(origin, idx)
    /\ pc' = "loop"
    /\ UNCHANGED <<inputs, files, idx, fileLocals, exc, failed, malformed, opens>>

\* where the handler of lines 152-153 goes on: continue
Handler(e) == "loop"

\* lines 152-153: except Exception: continue
Except ==
    /\ pc = "except"
    /\ failed' = failed \cup {idx}
    /\ exc' = "none"
    /\ pc' = Handler(exc)
    /\ UNCHANGED <<inputs, files, idx, data, fileLocals, origin, malformed, opens>>

Next ==
    \/ ReturnMissing
    \/ ListFolder
    \/ NextFile
    \/ Return
    \/ OpenOk
    \/ OpenFail
    \/ ReadPage
    \/ ExtractFail
    \/ EndPages
    \/ CountPolicies
    \/ ScoreAndAppend
    \/ Except

Spec == Init /\ [][Next]_vars

SpecDoc == InitDoc /\ [][Next]_vars

\* ------------------------------------------------------------- type sanity
TypeOK ==
    /\ pc \in {"start", "loop", "open", "pages", "policy", "score", "except", "done",
              "raised"}
    /\ idx \in 0..Len(files)
    /\ page \in 0..MaxPages
    /\ Len(data) = Len(origin)

\* ================================================================== claims
Range(q) == {q[k] : k \in 1..Len(q)}

RECURSIVE Concat(_)
Concat(pages) == IF pages = <<>> THEN <<>> ELSE Head(pages) \o Concat(Tail(pages))

RECURSIVE ScanPages(_, _, _)
ScanPages(pages, k, l) ==
    IF k > Len(pages) THEN l ELSE ScanPages(pages, k + 1, PageStep(l, pages[k]).loc)

\* the record of a document of the given pages, processed on its own
DocRecord(f, pages) ==
    LET l == ScanPages(pages, 1, InitLoc)
    IN  MakeRecord(f, [l EXCEPT !.policy_count = PolicyCount(l.full_text)])

RECURSIVE FilesNotIn(_, _, _)
FilesNotIn(n, k, S) ==
    IF k > n THEN <<>>
    ELSE (IF k \in S THEN <<>> ELSE <<k>>) \o FilesNotIn(n, k + 1, S)

Fields == {"csr_spend", "renewable_energy", "total_energy", "ghg_emissions"}
DefaultOf(f) == IF f = "total_energy" THEN One ELSE Zero
LabelsOf(f) ==
    CASE f = "csr_spend" -> CsrLabels
      [] f = "renewable_energy" -> RenLabels
      [] f = "total_energy" -> EnLabels
      [] f = "ghg_emissions" -> GhgLabels

\* a label phrase with a number at some later position of the page
LabelThenNumber(txt, labels) ==
    \E i \in 1..Len(txt) : \E j \in i + 1..Len(txt) :
        IsWord(txt[i], labels) /\ HasNum(txt[j])

\* a label phrase with a number later on the same line
LabelThenNumberOnLine(txt, labels) ==
    \E i \in 1..Len(txt) : \E j \in i + 1..Len(txt) :
        /\ IsWord(txt[i], labels)
        /\ HasNum(txt[j])
        /\ \A k \in i + 1..j - 1 : txt[k].k # "nl"

\* a page has been read without an exception
PageRead == pc = "pages" /\ pc' = "pages" /\ page' = page + 1

\* the file the loop is at has just had its record appended
JustAppended == pc = "loop" /\ origin # <<>> /\ origin[Len(origin)] = idx

\* ----------------------------------------------------------------------- C1
C1_State ==
    /\ pc # "raised"
    /\ Len(data) = Len(origin)
    /\ Range(origin) \cap failed = {}
    /\ \A k \in 1..Len(data) : data[k].Company = CompanyName(files[origin[k]])
    /\ JustAppended => data[Len(data)] = DocRecord(files[idx], seen)
    /\ pc = "done" /\ dirExists => origin = FilesNotIn(Len(files), 1, failed)

C1_Step ==
    /\ Len(data') >= Len(data)
    /\ \A k \in 1..Len(data) : data'[k] = data[k]
    /\ pc = "except" => data' = data

\* C1: process_pdfs never raises; the result set is the records of the
\* non-failing files in enumeration order, each the record that file yields on
\* its own; a failing file adds nothing and no step changes a record already
\* in the result set.
C1_FailureIsolation == [](C1_State) /\ [][C1_Step]_vars

C1_Witness ==
    /\ pc = "done"
    /\ failed = {1}
    /\ origin = <<2>>
    /\ data[1].CsrSpend = F(500, 1)

\* ----------------------------------------------------------------------- C2
InRange(x) == IsFin(x) /\ ~FLt(x, Zero) /\ ~FGt(x, F(100, 1))

\* C2: every record of the result set has talk, walk and risk score in
\* [0, 100] and policy_count in [0, 5].
C2_ScoresInRange ==
    \A k \in 1..Len(data) :
        /\ InRange(data[k].TalkScore)
        /\ InRange(data[k].WalkScore)
        /\ InRange(data[k].RiskScore)
        /\ data[k].Policies \in 0..5

\* ----------------------------------------------------------------------- C3
\* C3: once a page of a document has matched a field, no later page of the
\* document changes the field's value or its evidence snippet.
C3_FirstMatchWins ==
    [][idx' = idx =>
         \A f \in found :
            /\ loc'[f] = loc[f]
            /\ f = "csr_spend" => loc'.csr_snippet = loc.csr_snippet
            /\ f = "renewable_energy" => loc'.renew_snippet = loc.renew_snippet]_vars

\* ----------------------------------------------------------------------- C4
\* C4: a document with a match whose number cannot be parsed still yields a
\* record (the field staying at its default).
C4_ParseFailureKeepsRecord ==
    pc = "done" => \A i \in malformed : i \in Range(origin)

RefMin(a, b) == IF FLt(b, a) THEN b ELSE a
RefMax(a, b) == IF FGt(b, a) THEN b ELSE a

RefScores(policy_count, csr_spend, renewable_energy, total_energy) ==
    LET talk == F(policy_count * 100, 5)
        renew_mix == IF FGt(total_energy, F(10, 1))
                     THEN FMul(FDiv(renewable_energy, total_energy), F(100, 1))
                     ELSE Zero
        csr_component == RefMin(FMul(FDiv(csr_spend, F(500, 1)), F(50, 1)), F(50, 1))
        walk == RefMin(FAdd(renew_mix, csr_component), F(100, 1))
        risk == RefMax(FSub(talk, walk), Zero)
    IN  [talk |-> talk, walk |-> walk, risk |-> risk]

\* C6: the scores of every record are the reference formula applied to the
\* record's policy_count, csr_spend, renewable_energy and total_energy (rounded
\* to one decimal); (5, 500, 400, 1000) gives talk 100, walk 90, risk 10.
C6_ScoresMatchReference ==
    \A k \in 1..Len(data) :
        LET r == data[k]
            ref == RefScores(r.Policies, r.CsrSpend, r.RenewableEnergy, r.TotalEnergy)
        IN  /\ r.TalkScore = Round1(ref.talk)
            /\ r.WalkScore = Round1(ref.walk)
            /\ r.RiskScore = Round1(ref.risk)
            /\ ~FGt(r.TotalEnergy, F(10, 1))
                 => r.WalkScore = Round1(RefMin(FDiv(r.CsrSpend, F(10, 1)), F(50, 1)))
            /\ (r.Policies = 5 /\ r.CsrSpend = F(500, 1)
                  /\ r.RenewableEnergy = F(400, 1) /\ r.TotalEnergy = F(1000, 1))
                 => (r.TalkScore = F(100, 1) /\ r.WalkScore = F(90, 1)
                       /\ r.RiskScore = F(10, 1))

C6_Witness ==
    \E k \in 1..Len(data) :
        /\ data[k].Policies = 5
        /\ data[k].CsrSpend = F(500, 1)
        /\ data[k].RenewableEnergy = F(400, 1)
        /\ data[k].TotalEnergy = F(1000, 1)
        /\ data[k].WalkScore = F(90, 1)

\* ----------------------------------------------------------------------- C7
NoDocuments == ~dirExists \/ \A k \in 1..Len(listing) : listing[k][2] # ".pdf"

\* C7: with the folder missing, or holding no .pdf file, process_pdfs opens no
\* document, never raises, and returns the empty result set.
C7_EmptyFolder ==
    NoDocuments => /\ opens = 0
                   /\ data = <<>>
                   /\ pc \in {"start", "loop", "done"}

C7_Witness ==
    /\ pc = "done"
    /\ dirExists
    /\ listing # <<>>
    /\ NoDocuments
    /\ data = <<>>

\* ----------------------------------------------------------------------- C8
PolicyNames == Range(policies)

\* the policy name occurs and Yes occurs at some later position
Affirmed(txt, p) ==
    \E i \in 1..Len(txt) : \E j \in i + 1..Len(txt) :
        IsWord(txt[i], {p}) /\ IsWord(txt[j], {"yes"})

\* C8: policy_count is the number of checklist policies whose name is followed,
\* at any later position of the concatenated text of the pages read, by Yes:
\* one for each such policy whatever the repetitions.
C8_PolicyCount ==
    pc = "score" =>
        loc.policy_count = Cardinality({p \in PolicyNames : Affirmed(Concat(seen), p)})

C8_Witness ==
    /\ pc = "score"
    /\ Len(seen) = 2
    /\ ~Affirmed(seen[1], "climate change policy")
    /\ ~Affirmed(seen[2], "climate change policy")
    /\ Affirmed(Concat(seen), "climate change policy")
    /\ Affirmed(seen[2], "water policy")
    /\ loc.policy_count = 2

EvidenceOf(snippet, value, labels, pages) ==
    /\ \E p \in 1..Len(pages) : \E i \in 1..Len(pages[p]) : \E j \in i + 1..Len(pages[p]) :
          snippet = SubSeq(pages[p], i, j)
    /\ IsWord(snippet[1], labels)
    /\ HasNum(snippet[Len(snippet)])
    /\ ParseFloat(NumGroup(snippet[Len(snippet)])).ok
    /\ ParseFloat(NumGroup(snippet[Len(snippet)])).v = value

Consistent(snippet, value, labels, pages) ==
    /\ snippet = NotFound <=> \A p \in 1..Len(pages) : ~LabelThenNumberOnLine(pages[p], labels)
    /\ snippet = NotFound => value = Zero
    /\ snippet # NotFound => EvidenceOf(snippet, value, labels, pages)

\* C10: in a record, the CSR and the renewable evidence is "Not Found" exactly
\* when no page read matched the field's pattern, the value then being 0.0;
\* otherwise it is the matched text of the match that gave the value.
C10_EvidenceConsistent ==
    JustAppended =>
        LET r == data[Len(data)]
        IN  /\ Consistent(r.CsrEvidence, r.CsrSpend, CsrLabels, seen)
            /\ Consistent(r.RenewableEvidence, r.RenewableEnergy, RenLabels, seen)

C10_Witness ==
    /\ JustAppended
    /\ data[Len(data)].CsrEvidence # NotFound
    /\ data[Len(data)].CsrSpend = F(1252, 5)
    /\ data[Len(data)].RenewableEvidence = NotFound
    /\ Len(seen) = 2
    /\ LabelThenNumber(seen[2], RenLabels)

====
